---- MODULE Spec2Model ----
(***************************************************************************)
(* XRename: batch file renaming (renamer.py, xrename.py, utils.py).        *)
(*                                                                         *)
(* Strings are sequences of one-character strings, so that splitting a     *)
(* name into stem and extension, zero padding, lower-casing and path       *)
(* joining are computed the way the Python code computes them.             *)
(*                                                                         *)
(* The file system is a three-directory tree: the root "P", the target     *)
(* directory "D" (= /d) and one subdirectory "S" (= /d/s).  Every regular  *)
(* file has an identity; loc maps the identity to the place it is linked   *)
(* at, or to Absent.                                                       *)
(***************************************************************************)
EXTENDS Integers, Sequences, FiniteSets, TLC

VARIABLES
    target_path, \* main(): the directory given on the command line
    self,       \* the FileRenamer's fields, set by __init__
    loc,        \* file system: file identity -> place or Absent
    pc,         \* position of main()/rename_files
    files,      \* rename_files: the sorted candidate list (paths)
    index,      \* rename_files: loop position, 0-based
    total, renamed, skipped, errors,   \* rename_files: the counters
    log,        \* one record per processed candidate (the logger's lines)
    printed,    \* main(): the number shown in the summary line
    exitcode,   \* main(): sys.exit status
    preview,    \* the log of the preceding --dry-run invocation, if any
    gen         \* inputs and result of one _generate_new_name call

vars == <<target_path, self, loc, pc, files, index, total, renamed, skipped, errors,
          log, printed, exitcode, preview, gen>>

(***************************************************************************)
(* Bounds of the model.                                                    *)
(***************************************************************************)
MaxFiles == 3      \* files present in the tree when a run starts
MaxTotal == 15     \* largest total handed to the name generator alone

None == "None"                            \* no exception, no directory
Absent == [dir |-> "nowhere", name |-> <<>>]   \* a file that is not linked

(***************************************************************************)
(* Strings.                                                                *)
(***************************************************************************)
\* Code point of the characters used (Python compares str by code point).
Ord(c) ==
    CASE c = "." -> 46 [] c = "/" -> 47
      [] c = "0" -> 48 [] c = "1" -> 49 [] c = "2" -> 50 [] c = "3" -> 51
      [] c = "4" -> 52 [] c = "5" -> 53 [] c = "6" -> 54 [] c = "7" -> 55
      [] c = "8" -> 56 [] c = "9" -> 57
      [] c = "J" -> 74 [] c = "T" -> 84 [] c = "_" -> 95
      [] c = "a" -> 97 [] c = "b" -> 98 [] c = "d" -> 100 [] c = "j" -> 106
      [] c = "s" -> 115 [] c = "t" -> 116 [] c = "z" -> 122

\* str.lower()
LowerChar(c) == CASE c = "J" -> "j" [] c = "T" -> "t" [] OTHER -> c

Lower(s) == [i \in 1..Len(s) |-> LowerChar(s[i])]

\* str.lstrip('.')
RECURSIVE LStripDot(_)
LStripDot(s) ==
    IF s # <<>> /\ Head(s) = "." THEN LStripDot(Tail(s)) ELSE s

\* str(n) for n >= 0
Digit(d) == <<"0", "1", "2", "3", "4", "5", "6", "7", "8", "9">>[d + 1]

RECURSIVE IntToStr(_)
IntToStr(n) ==
    IF n < 10 THEN <<Digit(n)>> ELSE IntToStr(n \div 10) \o <<Digit(n % 10)>>

\* format(n, "0{w}d"): zero-fill on the left up to width w, never truncating
RECURSIVE ZeroFill(_, _)
ZeroFill(s, w) == IF Len(s) >= w THEN s ELSE ZeroFill(<<"0">> \o s, w)

ZeroPad(n, w) == ZeroFill(IntToStr(n), w)

\* s < t for Python str
RECURSIVE StrLess(_, _)
StrLess(s, t) ==
    IF t = <<>> THEN FALSE
    ELSE IF s = <<>> THEN TRUE
    ELSE IF Head(s) # Head(t) THEN Ord(Head(s)) < Ord(Head(t))
    ELSE StrLess(Tail(s), Tail(t))

\* str.rfind('.') + 1, i.e. the 1-based position of the last dot, 0 if none
RECURSIVE LastDot(_)
LastDot(s) ==
    IF s = <<>> THEN 0
    ELSE IF s[Len(s)] = "." THEN Len(s)
    ELSE LastDot(SubSeq(s, 1, Len(s) - 1))

\* PurePath(name).suffix for a one-component name
PathSuffix(name) ==
    LET i == LastDot(name)
    IN  IF 1 < i /\ i < Len(name) THEN SubSeq(name, i, Len(name)) ELSE <<>>

\* PurePath(name).stem for a one-component name
PathStem(name) ==
    LET i == LastDot(name)
    IN  IF 1 < i /\ i < Len(name) THEN SubSeq(name, 1, i - 1) ELSE name

(***************************************************************************)
(* str.format on the pattern.  A pattern is the parsed format string: a    *)
(* sequence of literal pieces and replacement fields {name:spec}.          *)
(***************************************************************************)
Lit(s) == [t |-> "lit", s |-> s]
Field(name, width) == [t |-> "field", name |-> name, width |-> width]

\* One replacement field.  name "" is the auto-numbered field "{}"; width 0
\* is an empty format spec, width w > 0 is the spec "0{w}d".
FormatField(f, idx, original, tot) ==
    IF f.name = "" THEN [exc |-> "IndexError", val |-> <<>>]
    ELSE IF f.name \notin {"index", "original", "total"}
    THEN [exc |-> "KeyError", val |-> <<>>]
    ELSE IF f.name = "original"
    THEN IF f.width > 0 THEN [exc |-> "ValueError", val |-> <<>>]
         ELSE [exc |-> None, val |-> original]
    ELSE LET n == IF f.name = "index" THEN idx ELSE tot
         IN  [exc |-> None,
              val |-> IF f.width > 0 THEN ZeroPad(n, f.width) ELSE IntToStr(n)]

RECURSIVE Format(_, _, _, _)
Format(pattern, idx, original, tot) ==
    IF pattern = <<>> THEN [exc |-> None, val |-> <<>>]
    ELSE LET h == Head(pattern)
             r == IF h.t = "lit" THEN [exc |-> None, val |-> h.s]
                  ELSE FormatField(h, idx, original, tot)
         IN  IF r.exc # None THEN r
             ELSE LET rest == Format(Tail(pattern), idx, original, tot)
                  IN  IF rest.exc # None THEN rest
                      ELSE [exc |-> None, val |-> r.val \o rest.val]

(***************************************************************************)
(* FileRenamer.__init__ and FileRenamer._generate_new_name                 *)
(***************************************************************************)
\* The optional fields new_ext and filter_ext are only ever tested for
\* truth, so Python's None is written as the empty sequence, which is falsy
\* as well.

\* new_ext.lower().lstrip('.') if new_ext else None
NormExt(new_ext) == IF new_ext # <<>> THEN LStripDot(Lower(new_ext)) ELSE <<>>

\* [ext.lower().lstrip('.') for ext in filter_ext] if filter_ext else None
NormFilter(filter_ext) ==
    IF filter_ext # <<>>
    THEN [i \in 1..Len(filter_ext) |-> LStripDot(Lower(filter_ext[i]))]
    ELSE <<>>

FileRenamer(prefix, suffix, add_number, new_ext, pattern, recursive, filter_ext, dry_run) ==
    [prefix |-> prefix, suffix |-> suffix, add_number |-> add_number,
     new_ext |-> NormExt(new_ext), pattern |-> pattern,
     recursive |-> recursive, filter_ext |-> NormFilter(filter_ext),
     dry_run |-> dry_run]

\* Python truthiness of a str or list
Truthy(s) == s # <<>>

\* variant: the width is taken from the number itself
NumberFormatUnpadded(idx, tot) ==
    <<"_">> \o ZeroPad(idx + 1, Len(IntToStr(idx + 1)))

\* digits = len(str(total)); f"_{index+1:0{digits}d}"
NumberFormat(idx, tot) == <<"_">> \o ZeroPad(idx + 1, Len(IntToStr(tot)))

\* the except clause of the pattern branch
PatternCaught(exc) == exc \in {"KeyError", "ValueError"}

\* lines 92-116: the default name
DefaultName(o, original_name, idx, tot) ==
    LET stem == PathStem(original_name)
        ext == PathSuffix(original_name)
        s1 == IF o.prefix # <<>> THEN o.prefix \o stem ELSE stem
        s2 == IF o.add_number THEN s1 \o NumberFormat(idx, tot) ELSE s1
        s3 == IF o.suffix # <<>> THEN s2 \o o.suffix ELSE s2
        new_ext == IF Truthy(o.new_ext) THEN <<".">> \o o.new_ext ELSE ext
    IN  s3 \o new_ext

\* _generate_new_name: [exc, val]; exc # None is the exception that leaves it
GenerateNewName(o, original_name, idx, tot) ==
    LET stem == PathStem(original_name)
        ext == PathSuffix(original_name)
        r == Format(o.pattern, idx, stem, tot)
    IN  IF o.pattern # <<>> /\ r.exc = None
        THEN [exc |-> None,
              val |-> IF Truthy(o.new_ext)
                      THEN r.val \o <<".">> \o o.new_ext
                      ELSE r.val \o ext]
        ELSE IF o.pattern # <<>> /\ ~PatternCaught(r.exc)
        THEN [exc |-> r.exc, val |-> <<>>]
        ELSE [exc |-> None, val |-> DefaultName(o, original_name, idx, tot)]

(***************************************************************************)
(* The file system and pathlib paths.                                      *)
(***************************************************************************)
Dirs == {"P", "D", "S"}

DirParent(d) == CASE d = "S" -> "D" [] d = "D" -> "P" [] d = "P" -> "P"

\* the directory called name inside d, or None
DirChild(d, name) ==
    IF d = "P" /\ name = <<"d">> THEN "D"
    ELSE IF d = "D" /\ name = <<"s">> THEN "S"
    ELSE None

\* Path.parts of a directory
DirParts(d) ==
    CASE d = "P" -> << <<"/">> >>
      [] d = "D" -> << <<"/">>, <<"d">> >>
      [] d = "S" -> << <<"/">>, <<"d">>, <<"s">> >>

Place(d, name) == [dir |-> d, name |-> name]

\* the files that may be present when a run starts, by identity
Initial ==
    << Place("D", <<"a">>), Place("D", <<"b">>), Place("D", <<"a", "b">>),
       Place("D", <<"a", ".", "T">>), Place("S", <<"a">>),
       Place("P", <<"a">>) >>

FileIds == 1..Len(Initial)

\* s.split('/')
RECURSIVE Split(_)
Split(s) ==
    IF \A i \in 1..Len(s) : s[i] # "/" THEN <<s>>
    ELSE LET i == CHOOSE k \in 1..Len(s) :
                      s[k] = "/" /\ \A j \in 1..(k - 1) : s[j] # "/"
         IN  <<SubSeq(s, 1, i - 1)>> \o Split(SubSeq(s, i + 1, Len(s)))

\* parent / new_name: an absolute name replaces the parent; empty and "."
\* components are dropped, ".." is kept
Join(parent, new_name) ==
    [start |-> IF new_name # <<>> /\ Head(new_name) = "/" THEN "P" ELSE parent,
     comps |-> SelectSeq(Split(new_name),
                         LAMBDA c : c # <<>> /\ c # <<".">>)]

\* what the operating system finds at a path: a directory, a directory entry
\* (occupied or free), or no such directory on the way (ENOENT/ENOTDIR)
RECURSIVE Walk(_, _)
Walk(d, comps) ==
    IF comps = <<>> THEN [kind |-> "dir", dir |-> d, name |-> <<>>]
    ELSE LET c == Head(comps)
             next == IF c = <<".", ".">> THEN DirParent(d) ELSE DirChild(d, c)
         IN  IF next # None THEN Walk(next, Tail(comps))
             ELSE IF Len(comps) = 1
             THEN [kind |-> "entry", dir |-> d, name |-> c]
             ELSE [kind |-> "enoent", dir |-> d, name |-> c]

Resolve(path) == Walk(path.start, path.comps)

\* the file linked at a place, as a set (empty or a singleton)
FilesAt(fs, d, name) == {f \in FileIds : fs[f] = Place(d, name)}

\* variant: only directories are taken to exist
ExistsDirsOnly(fs, path) == Resolve(path).kind = "dir"

\* Path.exists()
Exists(fs, path) ==
    LET t == Resolve(path)
    IN  \/ t.kind = "dir"
        \/ t.kind = "entry" /\ FilesAt(fs, t.dir, t.name) # {}

\* Path.rename(): the exception it raises (None on success) and the file
\* system it leaves; oserr is the operating system refusing (EACCES, ...)
Rename(fs, src, path, oserr) ==
    LET t == Resolve(path)
        moved == FilesAt(fs, src.dir, src.name)
    IN  IF moved = {} \/ t.kind = "enoent"
        THEN [exc |-> "FileNotFoundError", fs |-> fs]
        ELSE IF t.kind = "dir" THEN [exc |-> "IsADirectoryError", fs |-> fs]
        ELSE IF oserr THEN [exc |-> "PermissionError", fs |-> fs]
        ELSE [exc |-> None,
              fs |-> [f \in FileIds |->
                        IF f \in moved THEN Place(t.dir, t.name)
                        ELSE IF fs[f] = Place(t.dir, t.name) THEN Absent
                        ELSE fs[f]]]

\* Path.__lt__: comparison of the parts, component by component
RECURSIVE PartsLess(_, _)
PartsLess(p, q) ==
    IF q = <<>> THEN FALSE
    ELSE IF p = <<>> THEN TRUE
    ELSE IF Head(p) # Head(q) THEN StrLess(Head(p), Head(q))
    ELSE PartsLess(Tail(p), Tail(q))

PathLess(a, b) ==
    PartsLess(DirParts(a.dir) \o <<a.name>>, DirParts(b.dir) \o <<b.name>>)

\* files.sort()
RECURSIVE Sort(_)
Sort(S) ==
    IF S = {} THEN <<>>
    ELSE LET m == CHOOSE x \in S : \A y \in S \ {x} : PathLess(x, y)
         IN  <<m>> \o Sort(S \ {m})

\* FileRenamer._should_process_file on an existing regular file
ShouldProcessFile(o, p) ==
    \/ ~Truthy(o.filter_ext)
    \/ \E i \in 1..Len(o.filter_ext) :
           o.filter_ext[i] = LStripDot(Lower(PathSuffix(p.name)))

\* target_path.iterdir() / target_path.rglob('*'), regular files only
Listing(fs, recursive) ==
    {fs[f] : f \in {g \in FileIds :
                      /\ fs[g] # Absent
                      /\ fs[g].dir \in (IF recursive THEN {"D", "S"} ELSE {"D"})}}

Candidates(o, fs) ==
    Sort({p \in Listing(fs, o.recursive) : ShouldProcessFile(o, p)})

\* variant: the listing is a generator, evaluated again as the loop goes on
ListAfterLazy(list, fs) == Candidates(self, fs)

\* files is a list built before the loop (lines 168-180): what happens to
\* the directory afterwards does not reach it
ListAfter(list, fs) == list

(***************************************************************************)
(* FileRenamer._rename_file and the loop of FileRenamer.rename_files       *)
(***************************************************************************)
\* variant: dry_run is not consulted
RenameFileAlways(o, fs, file_path, new_name, oserr) ==
    LET new_path == Join(file_path.dir, new_name)
        r == Rename(fs, file_path, new_path, oserr)
    IN  IF file_path.name = new_name
        THEN [ok |-> FALSE, why |-> "same", fs |-> fs]
        ELSE IF Exists(fs, new_path)
        THEN [ok |-> FALSE, why |-> "exists", fs |-> fs]
        ELSE IF r.exc = None
        THEN [ok |-> TRUE, why |-> "done", fs |-> r.fs]
        ELSE [ok |-> FALSE, why |-> "failed", fs |-> fs]

\* _rename_file: the value returned, the branch taken and the file system
\* it leaves.  Every exception raised inside is caught and becomes False.
RenameFile(o, fs, file_path, new_name, oserr) ==
    LET new_path == Join(file_path.dir, new_name)
        r == Rename(fs, file_path, new_path, oserr)
    IN  IF file_path.name = new_name
        THEN [ok |-> FALSE, why |-> "same", fs |-> fs]
        ELSE IF Exists(fs, new_path)
        THEN [ok |-> FALSE, why |-> "exists", fs |-> fs]
        ELSE IF o.dry_run
        THEN [ok |-> TRUE, why |-> "preview", fs |-> fs]
        ELSE IF r.exc = None
        THEN [ok |-> TRUE, why |-> "done", fs |-> r.fs]
        ELSE [ok |-> FALSE, why |-> "failed", fs |-> fs]

\* lines 190-204: which counter the file goes to
Classify(genExc, ok) ==
    IF genExc # None THEN "error"
    ELSE IF ok THEN "renamed" ELSE "skipped"

\* variant: the except branch of the loop forgets errors += 1
BumpNoErrors(counter, bucket, class) ==
    IF class = bucket /\ bucket # "error" THEN counter + 1 ELSE counter

\* renamed += 1 / skipped += 1 / errors += 1
Bump(counter, bucket, class) ==
    IF class = bucket THEN counter + 1 ELSE counter

\* main(): the numbers of the summary lines
Summary(dry_run, tot, ren, skp, err) ==
    IF dry_run THEN <<tot>>
    ELSE <<ren>> \o (IF skp > 0 THEN <<skp>> ELSE <<>>)
                 \o (IF err > 0 THEN <<err>> ELSE <<>>)

(***************************************************************************)
(* The command-line options tried.                                         *)
(***************************************************************************)
Prefixes == { <<>>, <<"a">>, <<".", ".", "/">> }
Suffixes == { <<>>, <<"b">> }
NewExts == { <<>>, <<".", "T">> }
Filters == { <<>>, << <<".", "T">>, <<"j">> >> }
Patterns ==
    { <<>>,
      << Lit(<<"z">>) >>,
      << Field("original", 0), Lit(<<"_">>), Field("index", 2) >>,
      << Field("original", 0), Field("bad", 0) >>,
      << Field("original", 2) >>,
      << Field("", 0) >> }

Options ==
    { FileRenamer(p, s, n, e, t, r, f, d) :
        p \in Prefixes, s \in Suffixes, n \in BOOLEAN, e \in NewExts,
        t \in Patterns, r \in BOOLEAN, f \in Filters, d \in BOOLEAN }

Trees ==
    { [f \in FileIds |-> IF f \in present THEN Initial[f] ELSE Absent] :
        present \in {S \in SUBSET FileIds : Cardinality(S) <= MaxFiles} }

\* the path argument: the target directory, or a path that is no directory
Targets == {"D", "X"}

NoPreview == [done |-> FALSE, log |-> <<>>]
GenIdle == [o |-> FileRenamer(<<>>, <<>>, FALSE, <<>>, <<>>, FALSE, <<>>, FALSE),
            name |-> <<>>, index |-> 0, total |-> 0, called |-> FALSE,
            out |-> [exc |-> None, val |-> <<>>]]

(***************************************************************************)
(* One invocation of the program, and a real run after a preview.          *)
(***************************************************************************)
Init ==
    /\ target_path \in Targets
    /\ self \in Options
    /\ loc \in Trees
    /\ pc = "start"
    /\ files = <<>>
    /\ index = 0
    /\ total = 0 /\ renamed = 0 /\ skipped = 0 /\ errors = 0
    /\ log = <<>>
    /\ printed = <<>>
    /\ exitcode = -1
    /\ preview = NoPreview
    /\ gen = GenIdle

\* main(), lines 106-109: validate_path fails, nothing is renamed
RejectPath ==
    /\ pc = "start"
    /\ target_path \notin Dirs
    /\ exitcode' = 1
    /\ pc' = "rejected"
    /\ UNCHANGED <<target_path, self, loc, files, index, total, renamed,
                   skipped, errors, log, printed, preview, gen>>

\* rename_files, lines 164-187: enumerate, sort, set the counters.  The
\* path has passed validate_path, so the ValueError of line 165 is not raised.
Enumerate ==
    /\ pc = "start"
    /\ target_path \in Dirs
    /\ files' = Candidates(self, loc)
    /\ total' = Len(files')
    /\ renamed' = 0 /\ skipped' = 0 /\ errors' = 0
    /\ index' = 0
    /\ pc' = "loop"
    /\ UNCHANGED <<target_path, self, loc, log, printed, exitcode, preview,
                   gen>>

\* rename_files, lines 189-204: one iteration of the loop
ProcessFile ==
    /\ pc = "loop"
    /\ index < total
    /\ \E oserr \in BOOLEAN :
         LET file_path == files[index + 1]
             g == GenerateNewName(self, file_path.name, index, total)
             r == IF g.exc = None
                  THEN RenameFile(self, loc, file_path, g.val, oserr)
                  ELSE [ok |-> FALSE, why |-> "generate", fs |-> loc]
             class == Classify(g.exc, r.ok)
         IN  /\ loc' = r.fs
             /\ renamed' = Bump(renamed, "renamed", class)
             /\ skipped' = Bump(skipped, "skipped", class)
             /\ errors' = Bump(errors, "error", class)
             /\ log' = Append(log, [src |-> file_path, exc |-> g.exc,
                                    new_name |-> g.val, class |-> class,
                                    why |-> r.why])
    /\ files' = ListAfter(files, loc')
    /\ index' = index + 1
    /\ UNCHANGED <<target_path, self, pc, total, printed, exitcode, preview,
                   gen>>

\* rename_files, lines 206-211: the loop is over, the counters are returned
Return ==
    /\ pc = "loop"
    /\ index = total
    /\ pc' = "returned"
    /\ UNCHANGED <<target_path, self, loc, files, index, total, renamed,
                   skipped, errors, log, printed, exitcode, preview, gen>>

\* main(), lines 127-136: the summary and the exit status
PrintSummary ==
    /\ pc = "returned"
    /\ printed' = Summary(self.dry_run, total, renamed, skipped, errors)
    /\ exitcode' = IF errors = 0 THEN 0 ELSE 1
    /\ pc' = "exited"
    /\ UNCHANGED <<target_path, self, loc, files, index, total, renamed,
                   skipped, errors, log, preview, gen>>

\* main(), lines 138-140: KeyboardInterrupt between two file operations
Interrupt ==
    /\ pc = "loop"
    /\ index < total
    /\ pc' = "interrupted"
    /\ exitcode' = 1
    /\ UNCHANGED <<target_path, self, loc, files, index, total, renamed,
                   skipped, errors, log, printed, preview, gen>>

\* the program is started again with the same options, without --dry-run
RunAgain ==
    /\ pc = "exited"
    /\ self.dry_run
    /\ ~preview.done
    /\ preview' = [done |-> TRUE, log |-> log]
    /\ self' = [self EXCEPT !.dry_run = FALSE]
    /\ pc' = "start"
    /\ files' = <<>>
    /\ index' = 0
    /\ total' = 0 /\ renamed' = 0 /\ skipped' = 0 /\ errors' = 0
    /\ log' = <<>>
    /\ printed' = <<>>
    /\ exitcode' = -1
    /\ UNCHANGED <<target_path, loc, gen>>

Next ==
    \/ RejectPath
    \/ Enumerate
    \/ ProcessFile
    \/ Return
    \/ PrintSummary
    \/ Interrupt
    \/ RunAgain

Spec == Init /\ [][Next]_vars

(***************************************************************************)
(* _generate_new_name on its own, over a range of index and total.         *)
(***************************************************************************)
GenNames == { <<"a">>, <<"a", ".", "t">>, <<".", "a">> }

GenPatterns == Patterns \cup { << Field("total", 0), Field("index", 0) >> }

GenOptions ==
    { FileRenamer(p, s, n, e, t, FALSE, <<>>, FALSE) :
        p \in {<<>>, <<"a">>}, s \in Suffixes, n \in BOOLEAN, e \in NewExts,
        t \in GenPatterns }

InitGen ==
    /\ target_path = "D"
    /\ self \in {GenIdle.o}
    /\ loc = [f \in FileIds |-> Absent]
    /\ pc = "gen"
    /\ files = <<>>
    /\ index = 0
    /\ total = 0 /\ renamed = 0 /\ skipped = 0 /\ errors = 0
    /\ log = <<>>
    /\ printed = <<>>
    /\ exitcode = -1
    /\ preview = NoPreview
    /\ \E o \in GenOptions, n \in GenNames, t \in 1..MaxTotal :
         \E i \in 0..(t - 1) :
            gen = [o |-> o, name |-> n, index |-> i, total |-> t,
                   called |-> FALSE, out |-> [exc |-> None, val |-> <<>>]]

GenCall ==
    /\ pc = "gen"
    /\ ~gen.called
    /\ gen' = [gen EXCEPT !.called = TRUE,
                          !.out = GenerateNewName(gen.o, gen.name,
                                                  gen.index, gen.total)]
    /\ UNCHANGED <<target_path, self, loc, pc, files, index, total, renamed,
                   skipped,
                   errors, log, printed, exitcode, preview>>

NextGen == GenCall

SpecGen == InitGen /\ [][NextGen]_vars

(***************************************************************************)
(* Properties.                                                             *)
(***************************************************************************)
\* a file or a directory is found at parent / new_name in the file system fs
Occupied(fs, parent, new_name) ==
    LET t == Resolve(Join(parent, new_name))
    IN  \/ t.kind = "dir"
        \/ t.kind = "entry" /\ \E f \in FileIds : fs[f] = Place(t.dir, t.name)

\* the number of log records of one class
CountOf(class) == Cardinality({i \in 1..Len(log) : log[i].class = class})

\* C1: when rename_files has returned, total = renamed + skipped + errors,
\* and the three counters are the numbers of candidates of each outcome,
\* every candidate of the sorted list having exactly one outcome.
CountInvariant ==
    pc \in {"returned", "exited"} =>
        /\ total = renamed + skipped + errors
        /\ total = Len(files)
        /\ Len(log) = total
        /\ renamed = CountOf("renamed")
        /\ skipped = CountOf("skipped")
        /\ errors = CountOf("error")

\* a completed real run with a renamed file, a no-op and a failed rename
CountWitness ==
    /\ pc = "returned"
    /\ renamed > 0
    /\ \E i \in 1..Len(log) : log[i].why = "failed"
    /\ \E i \in 1..Len(log) : log[i].why = "exists"

\* C2: no step makes a file disappear, and a candidate whose computed target
\* is occupied when it is processed is left where it is and counted as
\* skipped, not as renamed or error.
CollisionSafety ==
    [][ /\ \A f \in FileIds : loc[f] # Absent => loc'[f] # Absent
        /\ (pc = "loop" /\ index' = index + 1) =>
             LET e == log'[Len(log')]
             IN  (e.exc = None /\ Occupied(loc, e.src.dir, e.new_name)) =>
                    /\ loc' = loc
                    /\ skipped' = skipped + 1
                    /\ renamed' = renamed
                    /\ errors' = errors ]_vars

\* a real run met an occupied target that is not the candidate itself
CollisionWitness ==
    /\ ~self.dry_run
    /\ \E i \in 1..Len(log) :
          /\ log[i].why = "exists"
          /\ log[i].class = "skipped"
          /\ \E f \in FileIds : loc[f] = log[i].src
          /\ \E f \in FileIds :
                /\ loc[f] # Absent
                /\ loc[f] # log[i].src
                /\ Resolve(Join(log[i].src.dir, log[i].new_name))
                      = [kind |-> "entry", dir |-> loc[f].dir,
                         name |-> loc[f].name]

\* the candidate of a log record would change: its new name was generated,
\* differs from its name and is free in the file system
WouldChange(e) ==
    /\ e.exc = None
    /\ e.new_name # e.src.name
    /\ ~Occupied(loc, e.src.dir, e.new_name)

\* C3: with dry_run set no step changes the file system, and a candidate is
\* counted as renamed exactly if its new name differs and is free.
DryRunNoMutation ==
    [][ self.dry_run =>
          /\ loc' = loc
          /\ (pc = "loop" /\ index' = index + 1) =>
                LET e == log'[Len(log')]
                IN  /\ (e.class = "renamed") <=> WouldChange(e)
                    /\ renamed' = IF WouldChange(e) THEN renamed + 1
                                  ELSE renamed ]_vars

\* a completed dry run that counted two files as renamed and skipped one
DryRunWitness ==
    /\ self.dry_run
    /\ pc = "returned"
    /\ renamed >= 2
    /\ skipped >= 1

\* C4 (as claimed): a real run after a dry run on the unchanged directory,
\* in which no rename call failed, classifies every candidate as the
\* preview did, with the same new names.
PreviewMatchesRun ==
    (/\ pc = "returned"
     /\ preview.done
     /\ \A i \in 1..Len(log) : log[i].why # "failed") =>
        /\ Len(log) = Len(preview.log)
        /\ \A i \in 1..Len(log) :
              /\ log[i].src = preview.log[i].src
              /\ log[i].new_name = preview.log[i].new_name
              /\ log[i].class = preview.log[i].class

\* C5 (as claimed): a candidate whose name generation or rename call raised
\* is counted in errors.
FailureCountedAsError ==
    \A i \in 1..Len(log) :
        log[i].why \in {"failed", "generate"} => log[i].class = "error"

\* C6 (as claimed): a candidate whose pattern cannot be rendered gets the
\* name of the default rule and is not counted as an error.
PatternFallback ==
    \A i \in 1..Len(log) :
        LET e == log[i]
            r == Format(self.pattern, i - 1, PathStem(e.src.name), total)
        IN  (self.pattern # <<>> /\ r.exc # None) =>
               /\ e.class # "error"
               /\ e.new_name = DefaultName(self, e.src.name, i - 1, total)

\* C7 (as claimed): the summary of a dry run shows the number of candidates
\* classified renamed.
DryRunSummaryCountsChanges ==
    (pc = "exited" /\ self.dry_run) => printed = <<renamed>>

\* the place parent / new_name leads to
TargetPlace(parent, new_name) ==
    LET t == Resolve(Join(parent, new_name)) IN Place(t.dir, t.name)

\* the candidates not yet processed are the files found at enumeration,
\* still at their paths
PendingUntouched ==
    /\ total = Len(files)
    /\ \A i \in (index + 1)..total :
          \E f \in FileIds : Initial[f] = files[i] /\ loc[f] = files[i]

\* the candidates already processed are where their outcome left them
ProcessedKept ==
    /\ Len(log) = index
    /\ \A i \in 1..index :
          /\ log[i].src = files[i]
          /\ \E f \in FileIds :
                /\ Initial[f] = files[i]
                /\ loc[f] = IF log[i].why = "done"
                            THEN TargetPlace(files[i].dir, log[i].new_name)
                            ELSE files[i]

\* C9: during the loop the candidate list and total do not change, and
\* after every iteration (also where the run is interrupted) the pending
\* candidates are untouched and the renamed ones are still renamed.
SnapshotStable ==
    [][ /\ pc = "loop" => (files' = files /\ total' = total)
        /\ pc' \in {"loop", "interrupted"} =>
              (PendingUntouched' /\ ProcessedKept') ]_vars

\* a run interrupted after a performed rename, with a candidate pending
InterruptedWitness ==
    /\ pc = "interrupted"
    /\ 1 <= index /\ index < total
    /\ log[1].why = "done"

\* C10 (as claimed): a file that was renamed is in the directory it was
\* enumerated in.
RenameStaysInParent ==
    \A i \in 1..Len(log) :
        log[i].why = "done" =>
            \E f \in FileIds :
                Initial[f] = log[i].src /\ loc[f].dir = log[i].src.dir

(***************************************************************************)
(* Properties of _generate_new_name alone (SpecGen).                       *)
(***************************************************************************)
\* the number of decimal digits of n >= 1
Width(n) == CHOOSE k \in 1..6 : 10 ^ (k - 1) <= n /\ n < 10 ^ k

IsDigit(c) == c \in {"0", "1", "2", "3", "4", "5", "6", "7", "8", "9"}

\* the number a string of digits denotes
RECURSIVE Value(_)
Value(s) ==
    IF s = <<>> THEN 0
    ELSE 10 * Value(SubSeq(s, 1, Len(s) - 1)) + (Ord(s[Len(s)]) - 48)

\* C8: with add_number and no pattern the name is prefix, stem, "_", then
\* index+1 written with exactly as many digits as total has (zero filled),
\* then suffix and the extension.
NumberingWidth ==
    (gen.called /\ gen.o.add_number /\ gen.o.pattern = <<>>) =>
        LET val == gen.out.val
            head == gen.o.prefix \o PathStem(gen.name) \o <<"_">>
            ext == IF gen.o.new_ext # <<>> THEN <<".">> \o gen.o.new_ext
                   ELSE PathSuffix(gen.name)
            tail == gen.o.suffix \o ext
            w == Len(val) - Len(head) - Len(tail)
            num == SubSeq(val, Len(head) + 1, Len(head) + w)
        IN  /\ gen.out.exc = None
            /\ w = Width(gen.total)
            /\ val = head \o num \o tail
            /\ \A i \in 1..w : IsDigit(num[i])
            /\ Value(num) = gen.index + 1

\* a one-digit number zero-filled to the two digits of total, between a
\* prefix and a suffix
NumberingWitness ==
    /\ gen.called /\ gen.o.add_number /\ gen.o.pattern = <<>>
    /\ gen.total >= 10 /\ gen.index + 1 < 10
    /\ gen.o.prefix # <<>> /\ gen.o.suffix # <<>>
    /\ gen.out.val = <<"a", "a", "_", "0", "3", "b", ".", "t">>

====
